---- MODULE Spec2Model ----
(***************************************************************************)
(* Verification model of the McCabe-Thiele design tool                     *)
(* (Code/McCabe_Thiele_App.py).                                            *)
(*                                                                         *)
(* The program computes in Python floats (IEEE 754 binary64).  TLC has     *)
(* only 32-bit integers, so a binary64 value is modelled as a record       *)
(* [s, m, e] standing for s * m * 2^e, with the 53-bit significand m held  *)
(* as a little-endian sequence of 15-bit limbs, and every arithmetic       *)
(* operation is rounded to nearest, ties to even, as the hardware does.    *)
(***************************************************************************)
EXTENDS Integers, Sequences, FiniteSets, TLC

(***************************************************************************)
(* Natural numbers of arbitrary size: little-endian limb sequences.        *)
(***************************************************************************)
Base == 2^15

RECURSIVE BNorm(_)
BNorm(a) ==
    IF a = <<>> THEN a
    ELSE IF a[Len(a)] = 0 THEN BNorm(SubSeq(a, 1, Len(a) - 1)) ELSE a

BLimb(a, i) == IF i <= Len(a) THEN a[i] ELSE 0

RECURSIVE BAddFrom(_, _, _, _)
BAddFrom(a, b, i, c) ==
    IF i > Len(a) /\ i > Len(b)
    THEN (IF c = 0 THEN <<>> ELSE <<c>>)
    ELSE <<(BLimb(a, i) + BLimb(b, i) + c) % Base>>
         \o BAddFrom(a, b, i + 1, (BLimb(a, i) + BLimb(b, i) + c) \div Base)

BAdd(a, b) == BAddFrom(a, b, 1, 0)

\* a - b for a >= b
RECURSIVE BSubFrom(_, _, _, _)
BSubFrom(a, b, i, c) ==
    IF i > Len(a) THEN <<>>
    ELSE IF a[i] - BLimb(b, i) - c < 0
         THEN <<a[i] - BLimb(b, i) - c + Base>> \o BSubFrom(a, b, i + 1, 1)
         ELSE <<a[i] - BLimb(b, i) - c>> \o BSubFrom(a, b, i + 1, 0)

BSub(a, b) == BNorm(BSubFrom(a, b, 1, 0))

\* -1, 0, 1 as a < b, a = b, a > b (both normalised)
RECURSIVE BCmpFrom(_, _, _)
BCmpFrom(a, b, i) ==
    IF i = 0 THEN 0
    ELSE IF a[i] < b[i] THEN -1
    ELSE IF a[i] > b[i] THEN 1
    ELSE BCmpFrom(a, b, i - 1)

BCmp(a, b) ==
    IF Len(a) < Len(b) THEN -1
    ELSE IF Len(a) > Len(b) THEN 1
    ELSE BCmpFrom(a, b, Len(a))

RECURSIVE BFromInt(_)
BFromInt(n) == IF n = 0 THEN <<>> ELSE <<n % Base>> \o BFromInt(n \div Base)

\* a * k for a limb k
RECURSIVE BMulLimbFrom(_, _, _, _)
BMulLimbFrom(a, k, i, c) ==
    IF i > Len(a)
    THEN (IF c = 0 THEN <<>> ELSE <<c>>)
    ELSE <<(a[i] * k + c) % Base>> \o BMulLimbFrom(a, k, i + 1, (a[i] * k + c) \div Base)

BZeros(n) == [i \in 1..n |-> 0]

RECURSIVE BMulFrom(_, _, _)
BMulFrom(a, b, j) ==
    IF j > Len(b) THEN <<>>
    ELSE BAdd(BZeros(j - 1) \o BMulLimbFrom(a, b[j], 1, 0), BMulFrom(a, b, j + 1))

BMul(a, b) == IF a = <<>> \/ b = <<>> THEN <<>> ELSE BNorm(BMulFrom(a, b, 1))

RECURSIVE LimbBits(_)
LimbBits(x) == IF x = 0 THEN 0 ELSE 1 + LimbBits(x \div 2)

BBitLen(a) == IF a = <<>> THEN 0 ELSE 15 * (Len(a) - 1) + LimbBits(a[Len(a)])

\* a * 2^k
BShl(a, k) ==
    IF a = <<>> THEN a
    ELSE BNorm(BZeros(k \div 15) \o BMulLimbFrom(a, 2^(k % 15), 1, 0))

\* floor(a / 2^k)
RECURSIVE BShrBitsFrom(_, _, _)
BShrBitsFrom(a, r, i) ==
    IF i > Len(a) THEN <<>>
    ELSE <<(a[i] \div 2^r) + (BLimb(a, i + 1) % 2^r) * 2^(15 - r)>>
         \o BShrBitsFrom(a, r, i + 1)

BShr(a, k) ==
    IF k \div 15 >= Len(a) THEN <<>>
    ELSE BNorm(BShrBitsFrom(SubSeq(a, k \div 15 + 1, Len(a)), k % 15, 1))

BOdd(a) == a # <<>> /\ a[1] % 2 = 1

BOne == <<1>>

(***************************************************************************)
(* binary64 values and their arithmetic (Python float: +, -, *, /, the     *)
(* comparisons).  Exponent overflow and subnormals are outside the ranges  *)
(* the program's quantities take and are not modelled.                     *)
(***************************************************************************)
Precision == 53

FZero == [s |-> 1, m |-> <<>>, e |-> 0]

IsZero(a) == a.m = <<>>

\* the significand q * 2^e, renormalised when rounding up carried into bit 54
FRenorm(s, q, e) ==
    IF BBitLen(q) > Precision THEN [s |-> s, m |-> BShr(q, 1), e |-> e + 1]
    ELSE [s |-> s, m |-> q, e |-> e]

\* q, or q + 1 when the discarded part is above half (c > 0) or is exactly half
\* (c = 0) and q is odd
FRoundUp(q, c) == IF c > 0 \/ (c = 0 /\ BOdd(q)) THEN BAdd(q, BOne) ELSE q

\* N has sh bits too many and q = floor(N / 2^sh)
FRoundTo(s, N, q, sh, e) ==
    FRenorm(s, FRoundUp(q, BCmp(BSub(N, BShl(q, sh)), BShl(BOne, sh - 1))), e + sh)

\* N has L bits
FRoundLen(s, N, e, L) ==
    IF L <= Precision
    THEN [s |-> s, m |-> BShl(N, Precision - L), e |-> e - (Precision - L)]
    ELSE FRoundTo(s, N, BShr(N, L - Precision), L - Precision, e)

\* s * N * 2^e rounded to nearest, ties to even
FRound(s, N, e) == IF N = <<>> THEN FZero ELSE FRoundLen(s, N, e, BBitLen(N))

FromInt(n) == FRound(IF n < 0 THEN -1 ELSE 1, BFromInt(IF n < 0 THEN -n ELSE n), 0)

FNeg(a) == IF IsZero(a) THEN a ELSE [a EXCEPT !.s = -a.s]

FAbs(a) == IF IsZero(a) THEN a ELSE [a EXCEPT !.s = 1]

\* sa * A + sb * B, both in units of 2^e, where c compares A with B
FAddAligned(sa, A, sb, B, c, e) ==
    FRound(IF c >= 0 THEN sa ELSE sb,
           IF sa = sb THEN BAdd(A, B) ELSE IF c >= 0 THEN BSub(A, B) ELSE BSub(B, A),
           e)

FAddAt(a, b, e) ==
    FAddAligned(a.s, BShl(a.m, a.e - e), b.s, BShl(b.m, b.e - e),
                BCmp(BShl(a.m, a.e - e), BShl(b.m, b.e - e)), e)

FAdd(a, b) ==
    IF IsZero(a) THEN b
    ELSE IF IsZero(b) THEN a
    ELSE FAddAt(a, b, IF a.e <= b.e THEN a.e ELSE b.e)

FSub(a, b) == FAdd(a, FNeg(b))

FMul(a, b) ==
    IF IsZero(a) \/ IsZero(b) THEN FZero
    ELSE FRound(a.s * b.s, BMul(a.m, b.m), a.e + b.e)

\* A 53-bit significand as the pair <<high, low>> of its 30-bit halves, and back.
HalfWord == 2^30

ToPair(a) == <<BLimb(a, 3) + BLimb(a, 4) * Base, BLimb(a, 1) + BLimb(a, 2) * Base>>

FromPair(p) == BNorm(<<p[2] % Base, p[2] \div Base, p[1] % Base, p[1] \div Base>>)

PairGe(a, b) == a[1] > b[1] \/ (a[1] = b[1] /\ a[2] >= b[2])

PairSub(a, b) ==
    IF a[2] >= b[2] THEN <<a[1] - b[1], a[2] - b[2]>>
    ELSE <<a[1] - b[1] - 1, a[2] + (HalfWord - b[2])>>

\* 2 * a + bit
PairDouble(a, bit) ==
    <<2 * a[1] + (IF a[2] >= HalfWord \div 2 THEN 1 ELSE 0), 2 * (a[2] % (HalfWord \div 2)) + bit>>

\* One step of long division by d: qr = <<quotient, remainder>> gains a quotient bit.
DivStep(qr, d) ==
    IF PairGe(PairDouble(qr[2], 0), d)
    THEN <<PairDouble(qr[1], 1), PairSub(PairDouble(qr[2], 0), d)>>
    ELSE <<PairDouble(qr[1], 0), PairDouble(qr[2], 0)>>

\* k >= 1 further bits of the quotient, for a remainder below d: the first half of
\* the steps, then the rest.  (The test on qr[1][1] is never true: it only makes
\* TLC evaluate the first half before it starts the second, which keeps its
\* evaluation shallow.)
RECURSIVE DivBits(_, _, _)
DivRest(qr, d, k) == IF qr[1][1] < 0 THEN qr ELSE DivBits(qr, d, k)

DivBits(qr, d, k) ==
    IF k = 1 THEN DivStep(qr, d)
    ELSE DivRest(DivBits(qr, d, k \div 2), d, k - k \div 2)

\* the quotient bits qr[1] with a sticky bit for a remainder qr[2] # 0, rounded
FDivRound(s, qr, e) ==
    FRound(s, BAdd(BShl(FromPair(qr[1]), 1), IF qr[2] = <<0, 0>> THEN <<>> ELSE BOne), e)

\* n / d for significands n, d: the quotient to Precision + 2 bits
FDivPairs(s, n, d, e) ==
    FDivRound(s,
              DivRest(IF PairGe(n, d) THEN <<<<0, 1>>, PairSub(n, d)>> ELSE <<<<0, 0>>, n>>,
                      d, Precision + 2),
              e)

\* a / b; Python raises ZeroDivisionError for b = 0, and the value standing for
\* that takes part in no further arithmetic
FDiv(a, b) ==
    IF IsZero(b) THEN "ZeroDivisionError"
    ELSE IF IsZero(a) THEN FZero
    ELSE FDivPairs(a.s * b.s, ToPair(a.m), ToPair(b.m), a.e - b.e - (Precision + 3))

Sign(a) == IF IsZero(a) THEN 0 ELSE a.s

\* -1, 0, 1 as a < b, a = b, a > b
FCmp(a, b) ==
    IF Sign(a) # Sign(b) THEN (IF Sign(a) < Sign(b) THEN -1 ELSE 1)
    ELSE IF Sign(a) = 0 THEN 0
    ELSE IF a.e # b.e THEN (IF a.e < b.e THEN -a.s ELSE a.s)
    ELSE a.s * BCmp(a.m, b.m)

FLt(a, b) == FCmp(a, b) < 0
FLe(a, b) == FCmp(a, b) <= 0
FGt(a, b) == FCmp(a, b) > 0
FGe(a, b) == FCmp(a, b) >= 0

\* the float a decimal literal num/den denotes (num, den small integers)
Lit(num, den) == FDiv(FromInt(num), FromInt(den))

\* The integer square root of N bit by bit: r with bit k set when that does not
\* exceed it.
SqrtPick(N, r, c) == IF BCmp(BMul(c, c), N) <= 0 THEN c ELSE r

SqrtStep(N, r, k) == SqrtPick(N, r, BAdd(r, BShl(BOne, k)))

\* Bits hi down to lo, starting from r: the upper half of the bits, then the rest.
\* (Len(r) < 0 is never true: it only makes TLC evaluate the upper half before it
\* starts the lower.)
RECURSIVE SqrtBits(_, _, _, _)
SqrtRest(N, r, hi, lo) == IF Len(r) < 0 THEN r ELSE SqrtBits(N, r, hi, lo)

SqrtBits(N, r, hi, lo) ==
    IF hi = lo THEN SqrtStep(N, r, hi)
    ELSE SqrtRest(N, SqrtBits(N, r, hi, (hi + lo) \div 2 + 1), (hi + lo) \div 2, lo)

\* r = floor(sqrt(N)), with a sticky bit when r * r # N
FSqrtRound(N, r, e) ==
    FRound(1, BAdd(BShl(r, 1), IF BCmp(BMul(r, r), N) = 0 THEN <<>> ELSE BOne), e)

FSqrtOf(N, e) == FSqrtRound(N, SqrtBits(N, <<>>, Precision + 3, 0), (e - 60) \div 2 - 1)

\* the correctly rounded square root of a >= 0
FSqrt(a) ==
    IF IsZero(a) THEN FZero
    ELSE FSqrtOf(BShl(a.m, IF a.e % 2 = 1 THEN 61 ELSE 60),
                 IF a.e % 2 = 1 THEN a.e - 1 ELSE a.e)

(***************************************************************************)
(* Acetone-ethanol equilibrium, relative-volatility approximation.         *)
(***************************************************************************)
alpha == Lit(24, 10)

FOne == FromInt(1)

\* A faulty inverse: the 1 of (alpha - 1) is left out.
x_from_y_without_one(y) == FDiv(y, FSub(alpha, FMul(y, alpha)))

equilibrium_curve(x) == FDiv(FMul(alpha, x), FAdd(FOne, FMul(FSub(alpha, FOne), x)))

x_from_y_equilibrium(y) == FDiv(y, FSub(alpha, FMul(y, FSub(alpha, FOne))))

(***************************************************************************)
(* The design computation: server.calculate_design and calculate_stages.   *)
(***************************************************************************)
MaxStages == 50

FallbackRmin == Lit(5, 10)
BottomsTolerance == Lit(101, 100)

\* an unset local (Python None, or a name not yet bound)
None == [s |-> 0, m |-> <<>>, e |-> 0]
NoStage == -1

\* The values the numeric inputs of app_ui take in this model: each lies in the
\* range its widget declares.
feed_rate_values == {FromInt(100)}
x_feed_values == {Lit(3, 100), Lit(50, 100), Lit(60, 100)}
x_distillate_values == {Lit(50, 100), Lit(12, 17), Lit(18, 23), Lit(95, 100)}
x_bottoms_values == {Lit(5, 100), Lit(50, 100)}
q_factor_values == {FromInt(1), Lit(1167, 1000)}
reflux_ratio_factor_values == {Lit(125, 100), FromInt(2), FromInt(3)}

VARIABLES
    feed_rate, x_feed, x_distillate, x_bottoms, q_factor, reflux_ratio_factor,
    pc, outcome,
    D, B,
    x_intersect, y_intersect, R_min, R,
    slope_rect, intercept_rect, x_feed_intersect, y_feed_intersect,
    slope_strip, intercept_strip,
    x_current, y_current, stage_num, stages_rect, stages_strip, feed_stage,
    stages_data,
    total_stages,
    previous,
    map_first, given, image, back,
    diagram_type, temperature, pressure_point, x_composition,
    pressure, temperature_point, x_composition_txy,
    equilibrium, previous_equilibrium

inputs  == <<feed_rate, x_feed, x_distillate, x_bottoms, q_factor>>
balance == <<D, B>>
reflux  == <<x_intersect, y_intersect, R_min, R>>
lines   == <<slope_rect, intercept_rect, x_feed_intersect, y_feed_intersect,
             slope_strip, intercept_strip>>
stepper == <<x_current, y_current, stage_num, stages_rect, stages_strip, feed_stage,
             stages_data>>
roundtrip == <<map_first, given, image, back>>
flash   == <<diagram_type, temperature, pressure_point, x_composition,
             pressure, temperature_point, x_composition_txy,
             equilibrium, previous_equilibrium>>
vars    == <<inputs, reflux_ratio_factor, pc, outcome, balance, reflux, lines, stepper,
             total_stages, previous, roundtrip, flash>>

\* the locals of a computation that has not run yet
Unset ==
    /\ D = None /\ B = None
    /\ x_intersect = None /\ y_intersect = None /\ R_min = None /\ R = None
    /\ slope_rect = None /\ intercept_rect = None
    /\ x_feed_intersect = None /\ y_feed_intersect = None
    /\ slope_strip = None /\ intercept_strip = None
    /\ x_current = None /\ y_current = None
    /\ stage_num = 0 /\ stages_rect = 0 /\ stages_strip = 0 /\ feed_stage = NoStage
    /\ stages_data = <<>>
    /\ total_stages = NoStage

\* no equilibrium round trip is being evaluated
NoRoundTrip == map_first = "none" /\ given = None /\ image = None /\ back = None

\* the result of a flash calculation that has not run
NoEquilibrium == [phase |-> "none"]

\* no flash condition is being evaluated
NoFlash ==
    /\ diagram_type = "none"
    /\ temperature = 0 /\ pressure_point = None /\ x_composition = None
    /\ pressure = None /\ temperature_point = 0 /\ x_composition_txy = None
    /\ equilibrium = NoEquilibrium
    /\ previous_equilibrium = NoEquilibrium

\* calculate_design is about to run on inputs drawn from the given sets
DesignInit(Fs, XFs, XDs, XBs, Qs, RFs) ==
    /\ feed_rate \in Fs
    /\ x_feed \in XFs
    /\ x_distillate \in XDs
    /\ x_bottoms \in XBs
    /\ q_factor \in Qs
    /\ reflux_ratio_factor \in RFs
    /\ pc = "material_balance"
    /\ outcome = "pending"
    /\ Unset
    /\ previous = [rf |-> None, total |-> NoStage]
    /\ NoRoundTrip
    /\ NoFlash

Init ==
    DesignInit(feed_rate_values, x_feed_values, x_distillate_values, x_bottoms_values,
               q_factor_values, reflux_ratio_factor_values)

\* A faulty balance: the lever arm of the bottoms, (x_d - x_f), in the numerator.
DistillateRateOtherArm(F, x_f, x_d, x_b) == FDiv(FMul(F, FSub(x_d, x_f)), FSub(x_d, x_b))

\* D = F * (x_f - x_b) / (x_d - x_b)
DistillateRate(F, x_f, x_d, x_b) == FDiv(FMul(F, FSub(x_f, x_b)), FSub(x_d, x_b))

\* lines 79-90.  Python raises ZeroDivisionError on a float division by zero.
MaterialBalance ==
    /\ pc = "material_balance"
    /\ IF IsZero(FSub(x_distillate, x_bottoms))
       THEN /\ outcome' = "ZeroDivisionError"
            /\ pc' = "failed"
            /\ UNCHANGED balance
       ELSE /\ D' = DistillateRate(feed_rate, x_feed, x_distillate, x_bottoms)
            /\ B' = FSub(feed_rate, D')
            /\ pc' = "minimum_reflux"
            /\ UNCHANGED outcome
    /\ UNCHANGED <<inputs, reflux_ratio_factor, reflux, lines, stepper, total_stages,
                   previous, roundtrip, flash>>

\* The feed line y = q/(q-1) * x - x_f/(q-1) divides by q - 1.
FeedLineRaises(q) == IsZero(FSub(q, FOne))

\* fsolve(feed_eq_intersection, x_f)[0]: the root of
\*   q/(q-1) * x - x_f/(q-1) = alpha*x / (1 + (alpha-1)*x),
\* that is of a*x^2 + b*x - x_f = 0 with a = (alpha-1)*q and
\* b = alpha - (alpha-1)*q - (alpha-1)*x_f, taken on the positive branch on which
\* the solver's start x_f lies.
PositiveRoot(a, b, x_f) ==
    FDiv(FMul(FromInt(2), x_f),
         FAdd(b, FSqrt(FAdd(FMul(b, b), FMul(FMul(FromInt(4), a), x_f)))))

FeedEquilibriumRoot(q, x_f) ==
    PositiveRoot(FMul(FSub(alpha, FOne), q),
                 FSub(FSub(alpha, FMul(FSub(alpha, FOne), q)),
                      FMul(FSub(alpha, FOne), x_f)),
                 x_f)

\* A faulty recovery: the except branch falls back to half the feed composition.
FeedEquilibriumIntersectHalved(q, x_f) ==
    IF FeedLineRaises(q) THEN FMul(x_f, Lit(5, 10)) ELSE FeedEquilibriumRoot(q, x_f)

\* lines 104-109: try fsolve(...), except: x_intersect = x_f
FeedEquilibriumIntersect(q, x_f) ==
    IF FeedLineRaises(q) THEN x_f ELSE FeedEquilibriumRoot(q, x_f)

\* R_min = (x_d - y_intersect) / (y_intersect - x_intersect); 0.5 when negative
NonNegativeRmin(r) == IF FLt(r, FZero) THEN FallbackRmin ELSE r

MinimumReflux(x_d, x_i, y_i) == NonNegativeRmin(FDiv(FSub(x_d, y_i), FSub(y_i, x_i)))

\* lines 99-117
MinimumRefluxStep ==
    /\ pc = "minimum_reflux"
    /\ x_intersect' = FeedEquilibriumIntersect(q_factor, x_feed)
    /\ y_intersect' = equilibrium_curve(x_intersect')
    /\ R_min' = MinimumReflux(x_distillate, x_intersect', y_intersect')
    /\ R' = FMul(reflux_ratio_factor, R_min')
    /\ pc' = "operating_lines"
    /\ UNCHANGED <<inputs, reflux_ratio_factor, outcome, balance, lines, stepper,
                   total_stages, previous, roundtrip, flash>>

\* fsolve(find_feed_intersection, x_f)[0]: the root of the linear equation
\*   slope_rect * x + intercept_rect = q/(q-1) * x - x_f/(q-1)
FeedRectifyingRoot(q, x_f, slope, intercept) ==
    FDiv(FAdd(FDiv(x_f, FSub(q, FOne)), intercept), FSub(FDiv(q, FSub(q, FOne)), slope))

\* slope of the line through (x_b, x_b) and the feed intersection
StrippingSlope(x_b, x_fi, y_fi) ==
    IF x_fi # x_b THEN FDiv(FSub(y_fi, x_b), FSub(x_fi, x_b)) ELSE FOne

\* lines 121-146
OperatingLines ==
    /\ pc = "operating_lines"
    /\ slope_rect' = FDiv(R, FAdd(R, FOne))
    /\ intercept_rect' = FDiv(x_distillate, FAdd(R, FOne))
    /\ x_feed_intersect' = IF FeedLineRaises(q_factor) THEN x_feed
                           ELSE FeedRectifyingRoot(q_factor, x_feed, slope_rect',
                                                   intercept_rect')
    /\ y_feed_intersect' = FAdd(FMul(slope_rect', x_feed_intersect'), intercept_rect')
    /\ slope_strip' = StrippingSlope(x_bottoms, x_feed_intersect', y_feed_intersect')
    /\ intercept_strip' = FSub(x_bottoms, FMul(slope_strip', x_bottoms))
    /\ pc' = "calculate_stages"
    /\ UNCHANGED <<inputs, reflux_ratio_factor, outcome, balance, reflux, stepper,
                   total_stages, previous, roundtrip, flash>>

\* lines 149, 178-186: the call, and the locals of calculate_stages
CalculateStages ==
    /\ pc = "calculate_stages"
    /\ x_current' = x_distillate
    /\ y_current' = x_distillate
    /\ stage_num' = 0
    /\ stages_rect' = 0
    /\ stages_strip' = 0
    /\ feed_stage' = NoStage
    /\ stages_data' = <<>>
    /\ pc' = "rectifying"
    /\ UNCHANGED <<inputs, reflux_ratio_factor, outcome, balance, reflux, lines,
                   total_stages, previous, roundtrip, flash>>

\* A faulty loop test: the cap off by one.
RectifyingContinuesOneMore(x_cur, x_fi, n) == FGt(x_cur, x_fi) /\ n <= MaxStages

\* line 189: while x_current > x_feed_intersect and stage_num < 50
RectifyingContinues(x_cur, x_fi, n) == FGt(x_cur, x_fi) /\ n < MaxStages

\* A faulty loop test: stepping stops within a factor 2 of x_b.
StrippingContinuesLoose(x_cur, x_b, n) == FGt(x_cur, FMul(x_b, FromInt(2))) /\ n < MaxStages

\* line 227: while x_current > x_b * 1.01 and stage_num < 50
StrippingContinues(x_cur, x_b, n) == FGt(x_cur, FMul(x_b, BottomsTolerance)) /\ n < MaxStages

\* lines 220, 249: if x_current <= x_b * 1.01: break
CloseToBottoms(x_cur, x_b) == FLe(x_cur, FMul(x_b, BottomsTolerance))

\* A faulty section test: the comparison reversed.
SectionOfReversed(x_new, x_fi) == IF FLt(x_new, x_fi) THEN "Rectifying" ELSE "Stripping"

\* line 197: the section a stage belongs to
SectionOf(x_new, x_fi) == IF FGe(x_new, x_fi) THEN "Rectifying" ELSE "Stripping"

\* an operating line evaluated at x
OperatingLine(slope, intercept, x) == FAdd(FMul(slope, x), intercept)

\* A faulty record: x_next holds the new liquid composition.
StageRecordNextIsNew(n, section, x_new, y_cur, x_cur, y_new) ==
    [Stage |-> n, Section |-> section, x_liquid |-> x_new, y_vapor |-> y_cur,
     x_next |-> x_new, y_next |-> y_new]

\* lines 208-215, 237-244: the dictionary appended to stages_data
StageRecord(n, section, x_new, y_cur, x_cur, y_new) ==
    [Stage |-> n, Section |-> section, x_liquid |-> x_new, y_vapor |-> y_cur,
     x_next |-> x_cur, y_next |-> y_new]

\* A faulty count: the switching stage stays counted as rectifying.
StagesRectAfterKept(n, section) == n + 1

\* lines 191, 205: stages_rect += 1, and stages_rect -= 1 on the switching stage
StagesRectAfter(n, section) == IF section = "Rectifying" THEN n + 1 ELSE (n + 1) - 1

\* lines 189-221: one iteration of the rectifying loop
RectifyingStep ==
    /\ pc = "rectifying"
    /\ RectifyingContinues(x_current, x_feed_intersect, stage_num)
    /\ x_current' = x_from_y_equilibrium(y_current)
    /\ LET section == SectionOf(x_current', x_feed_intersect)
       IN  /\ y_current' = IF section = "Rectifying"
                           THEN OperatingLine(slope_rect, intercept_rect, x_current')
                           ELSE OperatingLine(slope_strip, intercept_strip, x_current')
           /\ stage_num' = stage_num + 1
           /\ stages_rect' = StagesRectAfter(stages_rect, section)
           /\ stages_strip' = IF section = "Rectifying" THEN stages_strip
                              ELSE stages_strip + 1
           /\ feed_stage' = IF section = "Rectifying" THEN feed_stage ELSE stage_num'
           /\ stages_data' = Append(stages_data,
                                    StageRecord(stage_num', section, x_current',
                                                y_current, x_current, y_current'))
           /\ pc' = IF CloseToBottoms(x_current', x_bottoms) THEN "feed_stage"
                    ELSE "rectifying"
    /\ UNCHANGED <<inputs, reflux_ratio_factor, outcome, balance, reflux, lines,
                   total_stages, previous, roundtrip, flash>>

\* line 189 evaluated false: the rectifying loop ends
RectifyingExit ==
    /\ pc = "rectifying"
    /\ ~RectifyingContinues(x_current, x_feed_intersect, stage_num)
    /\ pc' = "feed_stage"
    /\ UNCHANGED <<inputs, reflux_ratio_factor, outcome, balance, reflux, lines, stepper,
                   total_stages, previous, roundtrip, flash>>

\* lines 224-225: if feed_stage is None: feed_stage = stages_rect
DefaultFeedStage(fs, n_rect) == IF fs = NoStage THEN n_rect ELSE fs

FeedStageStep ==
    /\ pc = "feed_stage"
    /\ feed_stage' = DefaultFeedStage(feed_stage, stages_rect)
    /\ pc' = "stripping"
    /\ UNCHANGED <<inputs, reflux_ratio_factor, outcome, balance, reflux, lines,
                   x_current, y_current, stage_num, stages_rect, stages_strip,
                   stages_data, total_stages, previous, roundtrip, flash>>

\* lines 227-250: one iteration of the stripping loop
StrippingStep ==
    /\ pc = "stripping"
    /\ StrippingContinues(x_current, x_bottoms, stage_num)
    /\ x_current' = x_from_y_equilibrium(y_current)
    /\ y_current' = OperatingLine(slope_strip, intercept_strip, x_current')
    /\ stage_num' = stage_num + 1
    /\ stages_strip' = stages_strip + 1
    /\ stages_data' = Append(stages_data,
                             StageRecord(stage_num', "Stripping", x_current', y_current,
                                         x_current, y_current'))
    /\ pc' = IF CloseToBottoms(x_current', x_bottoms) THEN "return" ELSE "stripping"
    /\ UNCHANGED <<inputs, reflux_ratio_factor, outcome, balance, reflux, lines,
                   stages_rect, feed_stage, total_stages, previous, roundtrip, flash>>

\* line 227 evaluated false: the stripping loop ends
StrippingExit ==
    /\ pc = "stripping"
    /\ ~StrippingContinues(x_current, x_bottoms, stage_num)
    /\ pc' = "return"
    /\ UNCHANGED <<inputs, reflux_ratio_factor, outcome, balance, reflux, lines, stepper,
                   total_stages, previous, roundtrip, flash>>

\* lines 252, 154-171: calculate_stages returns and calculate_design builds its
\* result dictionary
Return ==
    /\ pc = "return"
    /\ total_stages' = stages_rect + stages_strip
    /\ outcome' = "returned"
    /\ pc' = "done"
    /\ UNCHANGED <<inputs, reflux_ratio_factor, balance, reflux, lines, stepper, previous,
                   roundtrip, flash>>

Next ==
    \/ MaterialBalance
    \/ MinimumRefluxStep
    \/ OperatingLines
    \/ CalculateStages
    \/ RectifyingStep
    \/ RectifyingExit
    \/ FeedStageStep
    \/ StrippingStep
    \/ StrippingExit
    \/ Return

Spec == Init /\ [][Next]_vars

\* the positions of calculate_design and of calculate_stages
Positions ==
    {"material_balance", "minimum_reflux", "operating_lines", "calculate_stages",
     "rectifying", "feed_stage", "stripping", "return", "done", "failed"}

\* calculate_design has been called and has neither returned nor raised
Running == pc \notin {"done", "failed"}

\* The interpreter executes the next statement of a running call: the position
\* or the stage counter changes.  Every step of Next taken while Running is such
\* a step.
Advance ==
    /\ Running
    /\ \E p \in Positions, n \in 0..MaxStages :
           /\ pc' = p
           /\ stage_num' = n
           /\ <<p, n>> # <<pc, stage_num>>

\* calculate_design is a sequential computation: a running call is executed on
SpecFair == Spec /\ WF_<<pc, stage_num>>(Advance)

(***************************************************************************)
(* The reactive calculation run again after the user changes the reflux    *)
(* ratio factor; previous remembers the factor and the stage count of the  *)
(* run before.                                                             *)
(***************************************************************************)
reflux_study_x_feed_values == {Lit(1, 100), Lit(50, 100), Lit(57, 100)}
reflux_study_x_distillate_values == {Lit(50, 100), Lit(95, 100)}
reflux_study_x_bottoms_values == {Lit(1, 100)}

InitReflux ==
    DesignInit(feed_rate_values, reflux_study_x_feed_values,
               reflux_study_x_distillate_values, reflux_study_x_bottoms_values,
               q_factor_values, reflux_ratio_factor_values)

\* lines 76-84: input.reflux_ratio_factor() changes and invalidates calculate_design
ChangeReflux ==
    /\ pc = "done"
    /\ \E rf \in reflux_ratio_factor_values \ {reflux_ratio_factor} :
           reflux_ratio_factor' = rf
    /\ previous' = [rf |-> reflux_ratio_factor, total |-> total_stages]
    /\ pc' = "material_balance"
    /\ outcome' = "pending"
    /\ D' = None /\ B' = None
    /\ x_intersect' = None /\ y_intersect' = None /\ R_min' = None /\ R' = None
    /\ slope_rect' = None /\ intercept_rect' = None
    /\ x_feed_intersect' = None /\ y_feed_intersect' = None
    /\ slope_strip' = None /\ intercept_strip' = None
    /\ x_current' = None /\ y_current' = None
    /\ stage_num' = 0 /\ stages_rect' = 0 /\ stages_strip' = 0 /\ feed_stage' = NoStage
    /\ stages_data' = <<>>
    /\ total_stages' = NoStage
    /\ UNCHANGED <<inputs, roundtrip, flash>>

NextReflux == Next \/ ChangeReflux

SpecReflux == InitReflux /\ [][NextReflux]_vars

(***************************************************************************)
(* The two equilibrium functions applied one after the other to a value of *)
(* the grid 1/(GridSize+1), ..., GridSize/(GridSize+1).                    *)
(***************************************************************************)
GridSize == 99

Grid == {Lit(i, GridSize + 1) : i \in 1..GridSize}

InitEq ==
    /\ map_first \in {"equilibrium_curve", "x_from_y_equilibrium"}
    /\ given \in Grid
    /\ image = None
    /\ back = None
    /\ pc = "apply_first"
    /\ outcome = "pending"
    /\ feed_rate = None /\ x_feed = None /\ x_distillate = None /\ x_bottoms = None
    /\ q_factor = None /\ reflux_ratio_factor = None
    /\ Unset
    /\ previous = [rf |-> None, total |-> NoStage]
    /\ NoFlash

design_state == <<inputs, reflux_ratio_factor, outcome, balance, reflux, lines, stepper,
                  total_stages, previous>>

ApplyFirst ==
    /\ pc = "apply_first"
    /\ image' = IF map_first = "equilibrium_curve" THEN equilibrium_curve(given)
                ELSE x_from_y_equilibrium(given)
    /\ pc' = "apply_second"
    /\ UNCHANGED <<design_state, map_first, given, back, flash>>

ApplySecond ==
    /\ pc = "apply_second"
    /\ back' = IF map_first = "equilibrium_curve" THEN x_from_y_equilibrium(image)
               ELSE equilibrium_curve(image)
    /\ pc' = "round_trip"
    /\ UNCHANGED <<design_state, map_first, given, image, flash>>

NextEq == ApplyFirst \/ ApplySecond

SpecEq == InitEq /\ [][NextEq]_vars

(***************************************************************************)
(* MyVLEPlayground: the flash of an n-hexane (1) / n-heptane (2) mixture,  *)
(* calculate_phase_equilibrium, and the T-x-y table it reads.              *)
(***************************************************************************)
\* psat1(temp) = 10**(4.00266 - 1171.53/(temp + 224.216)), in bar, at the slider
\* temperatures of the model, to 1e-8 bar
psat1(temp) ==
    CASE temp = 85 -> Lit(163662506, 100000000)
      [] temp = 115 -> Lit(354013514, 100000000)
      [] temp = 125 -> Lit(444546099, 100000000)

\* psat2(temp) = 10**(4.04867 - 1355.126/(temp + 209.367)), in bar
psat2(temp) ==
    CASE temp = 85 -> Lit(27870481, 100000000)
      [] temp = 115 -> Lit(74287297, 100000000)
      [] temp = 125 -> Lit(99051205, 100000000)

\* bubble point pressure: x * psat1(temp) + (1 - x) * psat2(temp)
px_function(x, temp) == FAdd(FMul(x, psat1(temp)), FMul(FSub(FOne, x), psat2(temp)))

\* dew point pressure: 1 / (x/psat1(temp) + (1-x)/psat2(temp))
py_function(x, temp) ==
    FDiv(FOne, FAdd(FDiv(x, psat1(temp)), FDiv(FSub(FOne, x), psat2(temp))))

\* numpy.linspace(0, 1, num): the points i * step, i = 0, ..., num - 2, with
\* step = 1/(num - 1), and the last point 1.  Python index i is index i + 1 here.
linspace(num) ==
    Append([k \in 1..(num - 1) |-> FMul(FromInt(k - 1), FDiv(FOne, FromInt(num - 1)))],
           FOne)

\* the composition grid of generate_equilibrium_data
TableSize == 101

x_eq == linspace(TableSize)

\* generate_equilibrium_data at 1 bar: the roots fsolve finds for bubble_eq and
\* dew_eq at x = 0.01, ..., 0.99, in units of 1e-6 degree C, between the two
\* boiling points 98.42 and 68.73 the code sets at x = 0 and x = 1
t_bubble_micro ==
    <<98420000, 124107417, 122901606, 121723634, 120572662, 119447870,
      118348459, 117273652, 116222696, 115194857, 114189425, 113205710,
      112243047, 111300788, 110378310, 109475009, 108590299, 107723618,
      106874420, 106042179, 105226387, 104426552, 103642203, 102872882,
      102118148, 101377576, 100650755, 99937290, 99236798, 98548910,
      97873271, 97209537, 96557377, 95916472, 95286511, 94667198,
      94058245, 93459373, 92870314, 92290809, 91720608, 91159467,
      90607155, 90063444, 89528115, 89000959, 88481769, 87970349,
      87466507, 86970058, 86480822, 85998628, 85523306, 85054694,
      84592634, 84136975, 83687567, 83244268, 82806939, 82375445,
      81949655, 81529443, 81114686, 80705265, 80301063, 79901969,
      79507873, 79118669, 78734255, 78354530, 77979397, 77608762,
      77242533, 76880621, 76522939, 76169402, 75819929, 75474439,
      75132855, 74795102, 74461105, 74130792, 73804095, 73480944,
      73161274, 72845020, 72532119, 72222511, 71916134, 71612931,
      71312845, 71015820, 70721803, 70430740, 70142581, 69857275,
      69574772, 69295026, 69017989, 68743616, 68730000>>

t_dew_micro ==
    <<98420000, 125062064, 124780207, 124496325, 124210386, 123922354,
      123632193, 123339868, 123045342, 122748575, 122449528, 122148162,
      121844433, 121538300, 121229718, 120918642, 120605025, 120288819,
      119969975, 119648441, 119324166, 118997094, 118667170, 118334337,
      117998534, 117659701, 117317774, 116972687, 116624373, 116272762,
      115917780, 115559355, 115197407, 114831856, 114462619, 114089610,
      113712739, 113331914, 112947037, 112558008, 112164725, 111767077,
      111364953, 110958235, 110546801, 110130524, 109709270, 109282902,
      108851275, 108414236, 107971629, 107523287, 107069037, 106608698,
      106142077, 105668976, 105189184, 104702479, 104208629, 103707386,
      103198494, 102681677, 102156646, 101623096, 101080700, 100529115,
      99967975, 99396890, 98815446, 98223198, 97619674, 97004367,
      96376733, 95736188, 95082103, 94413801, 93730546, 93031546,
      92315935, 91582775, 90831037, 90059596, 89267218, 88452538,
      87614048, 86750072, 85858741, 84937958, 83985362, 82998277,
      81973654, 80907995, 79797255, 78636720, 77420844, 76143031,
      74795346, 73368107, 71849305, 70223766, 68730000>>

\* y = x * psat1(T_bubble) / 1.0 at the same compositions, in units of 1e-9
y_vals_nano ==
    <<0, 43583313, 84852905, 123955432, 161027276, 196195293,
      229577502, 261283726, 291416194, 320070094, 347334090, 373290800,
      398017237, 421585224, 444061766, 465509409, 485986558, 505547781,
      524244085, 542123172, 559229677, 575605386, 591289437, 606318510,
      620726998, 634547166, 647809300, 660541843, 672771523, 684523467,
      695821311, 706687302, 717142387, 727206304, 736897657, 746233993,
      755231870, 763906920, 772273909, 780346794, 788138771, 795662321,
      802929261, 809950779, 816737475, 823299396, 829646070, 835786536,
      841729374, 847482731, 853054348, 858451583, 863681430, 868750545,
      873665260, 878431607, 883055328, 887541896, 891896529, 896124201,
      900229661, 904217437, 908091857, 911857050, 915516964, 919075374,
      922535887, 925901953, 929176877, 932363818, 935465805, 938485736,
      941426391, 944290432, 947080412, 949798782, 952447892, 955029996,
      957547260, 960001764, 962395505, 964730404, 967008305, 969230983,
      971400144, 973517431, 975584421, 977602638, 979573544, 981498550,
      983379014, 985216246, 987011508, 988766016, 990480944, 992157423,
      993796545, 995399363, 996966896, 998500126, 1000000000>>

\* a Python list: its elements are evaluated when it is built
list(f) == <<>> \o f

t_bubble == list([k \in 1..TableSize |-> Lit(t_bubble_micro[k], 1000000)])
t_dew == list([k \in 1..TableSize |-> Lit(t_dew_micro[k], 1000000)])
y_eq == list([k \in 1..TableSize |-> Lit(y_vals_nano[k], 1000000000)])

\* numpy.searchsorted(xs, v): the number of nodes of xs[lo..hi-1] and below that
\* are less than v
RECURSIVE searchsorted(_, _, _, _)
searchsorted(xs, v, lo, hi) ==
    IF lo = hi THEN lo
    ELSE IF FLt(xs[(lo + hi) \div 2 + 1], v) THEN searchsorted(xs, v, (lo + hi) \div 2 + 1, hi)
    ELSE searchsorted(xs, v, lo, (lo + hi) \div 2)

Clip(i, lo, hi) == IF i < lo THEN lo ELSE IF i > hi THEN hi ELSE i

\* interp1d, kind='linear': slope * (v - x_lo) + y_lo on the segment [hi - 1, hi]
linear_segment(xs, ys, v, hi) ==
    FAdd(FMul(FDiv(FSub(ys[hi + 1], ys[hi]), FSub(xs[hi + 1], xs[hi])),
              FSub(v, xs[hi])),
         ys[hi])

\* interp1d(xs, ys, kind='linear', fill_value='extrapolate')(v)
interp1d(xs, ys, v) ==
    linear_segment(xs, ys, v, Clip(searchsorted(xs, v, 0, TableSize), 1, TableSize - 1))

tx_interp(v) == interp1d(x_eq, t_bubble, v)
ty_interp(v) == interp1d(y_eq, t_dew, v)

\* x_range = y_range = np.linspace(0, 1, 1000) and the two curves sampled on it
RangeSize == 1000

x_range == linspace(RangeSize)
t_range == list([k \in 1..RangeSize |-> tx_interp(x_range[k])])
t_dew_range == list([k \in 1..RangeSize |-> ty_interp(x_range[k])])

\* np.abs(np.array(ts) - T)
abs_differences(ts, T) == list([k \in 1..RangeSize |-> FAbs(FSub(ts[k], T))])

\* of two indices i < j the one with the smaller entry, the first on a tie
smaller(ds, i, j) == IF FLt(ds[j + 1], ds[i + 1]) THEN j ELSE i

\* np.argmin(ds) over the Python indices lo..hi
RECURSIVE argmin(_, _, _)
argmin(ds, lo, hi) ==
    IF lo = hi THEN lo
    ELSE smaller(ds, argmin(ds, lo, (lo + hi) \div 2), argmin(ds, (lo + hi) \div 2 + 1, hi))

\* x_range[np.argmin(np.abs(np.array(ts) - T_point))]
nearest_point(ts, T_point) ==
    x_range[argmin(abs_differences(ts, FromInt(T_point)), 0, RangeSize - 1) + 1]

\* the values the sliders of app_ui take in this model
temperature_values == {85, 115, 125}
pressure_point_values == {Lit(5, 10), FromInt(1), Lit(15, 10), FromInt(2), FromInt(4)}
x_composition_values == {Lit(1, 100), Lit(45, 100), Lit(99, 100)}
pressure_values == {Lit(5, 10), FromInt(1), FromInt(2)}
temperature_point_values == {60, 100, 107, 140}
x_composition_txy_values == {Lit(1, 100), Lit(45, 100)}

\* vapor_fraction = (y_vapor - z) / (y_vapor - x_liquid)
lever_rule(y_vapor, z, x_liquid) == FDiv(FSub(y_vapor, z), FSub(y_vapor, x_liquid))

\* fsolve(liquid_eq, z)[0]: the root of x*psat1(T) + (1-x)*psat2(T) = P_point
liquid_root(T, P_point) == FDiv(FSub(P_point, psat2(T)), FSub(psat1(T), psat2(T)))

\* fsolve(vapor_eq, z)[0]: the root of 1/(x/psat1(T) + (1-x)/psat2(T)) = P_point
vapor_root(T, P_point) ==
    FDiv(FSub(FDiv(FOne, P_point), FDiv(FOne, psat2(T))),
         FSub(FDiv(FOne, psat1(T)), FDiv(FOne, psat2(T))))

\* the dictionary the "pxy" branch returns
pxy_result(phase, x_liquid, y_vapor, vapor_fraction, T, P_point, z) ==
    [phase |-> phase, x_liquid |-> x_liquid, y_vapor |-> y_vapor,
     vapor_fraction |-> vapor_fraction, P_bubble |-> px_function(z, T),
     P_dew |-> py_function(z, T), T |-> T, P_point |-> P_point, z |-> z]

pxy_two_phase(x_liquid, y_vapor, T, P_point, z) ==
    pxy_result("two-phase", x_liquid, y_vapor, lever_rule(y_vapor, z, x_liquid),
               T, P_point, z)

\* lines 155-203: the "pxy" branch of calculate_phase_equilibrium
pxy_equilibrium(T, P_point, z) ==
    IF FLt(P_point, py_function(z, T))
    THEN pxy_result("vapor", z, z, FOne, T, P_point, z)
    ELSE IF FGt(P_point, px_function(z, T))
    THEN pxy_result("liquid", z, z, FZero, T, P_point, z)
    ELSE pxy_two_phase(liquid_root(T, P_point), vapor_root(T, P_point), T, P_point, z)

\* lines 243-246: the lever rule, 0.5 when the two compositions coincide
guarded_lever_rule(y_vapor, z, x_liquid) ==
    IF y_vapor # x_liquid THEN lever_rule(y_vapor, z, x_liquid) ELSE Lit(5, 10)

\* the dictionary the "txy" branch returns
txy_result(phase, x_liquid, y_vapor, vapor_fraction, T_bubble_z, T_dew_z, T_point, P, z) ==
    [phase |-> phase, x_liquid |-> x_liquid, y_vapor |-> y_vapor,
     vapor_fraction |-> vapor_fraction, T_bubble |-> T_bubble_z, T_dew |-> T_dew_z,
     T_point |-> T_point, P |-> P, z |-> z]

txy_two_phase(x_liquid, y_vapor, T_bubble_z, T_dew_z, T_point, P, z) ==
    txy_result("two-phase", x_liquid, y_vapor, guarded_lever_rule(y_vapor, z, x_liquid),
               T_bubble_z, T_dew_z, T_point, P, z)

\* lines 216-246: phase and compositions from the two boundary temperatures
txy_classify(T_bubble_z, T_dew_z, T_point, P, z) ==
    IF FGt(FromInt(T_point), T_dew_z)
    THEN txy_result("vapor", z, z, FOne, T_bubble_z, T_dew_z, T_point, P, z)
    ELSE IF FLt(FromInt(T_point), T_bubble_z)
    THEN txy_result("liquid", z, z, FZero, T_bubble_z, T_dew_z, T_point, P, z)
    ELSE txy_two_phase(nearest_point(t_range, T_point), nearest_point(t_dew_range, T_point),
                       T_bubble_z, T_dew_z, T_point, P, z)

\* line 213: T_dew_z = ty_interp(z) if z < 1 else tx_interp(z)
T_dew_at(z) == IF FLt(z, FOne) THEN ty_interp(z) ELSE tx_interp(z)

\* A faulty table lookup: the boundary temperatures scale with the pressure input.
txy_equilibrium_scaled(P, T_point, z) ==
    txy_classify(FMul(P, tx_interp(z)), FMul(P, T_dew_at(z)), T_point, P, z)

\* lines 206-258: the "txy" branch of calculate_phase_equilibrium
txy_equilibrium(P, T_point, z) == txy_classify(tx_interp(z), T_dew_at(z), T_point, P, z)

InitFlash ==
    /\ diagram_type \in {"pxy", "txy"}
    /\ IF diagram_type = "pxy"
       THEN /\ temperature \in temperature_values
            /\ pressure_point \in pressure_point_values
            /\ x_composition \in x_composition_values
            /\ pressure = FromInt(1)
            /\ temperature_point = 115
            /\ x_composition_txy = Lit(45, 100)
       ELSE /\ temperature = 115
            /\ pressure_point = Lit(15, 10)
            /\ x_composition = Lit(45, 100)
            /\ pressure \in pressure_values
            /\ temperature_point \in temperature_point_values
            /\ x_composition_txy \in x_composition_txy_values
    /\ equilibrium = NoEquilibrium
    /\ previous_equilibrium = NoEquilibrium
    /\ pc = "phase_equilibrium"
    /\ outcome = "pending"
    /\ feed_rate = None /\ x_feed = None /\ x_distillate = None /\ x_bottoms = None
    /\ q_factor = None /\ reflux_ratio_factor = None
    /\ Unset
    /\ previous = [rf |-> None, total |-> NoStage]
    /\ NoRoundTrip

flash_inputs == <<diagram_type, temperature, pressure_point, x_composition,
                  temperature_point, x_composition_txy>>

\* calculate_phase_equilibrium with input.diagram_type() == "pxy"
FlashPxy ==
    /\ pc = "phase_equilibrium"
    /\ diagram_type = "pxy"
    /\ equilibrium' = pxy_equilibrium(temperature, pressure_point, x_composition)
    /\ pc' = "equilibrium"
    /\ UNCHANGED <<design_state, roundtrip, flash_inputs, pressure, previous_equilibrium>>

\* calculate_phase_equilibrium with the other diagram type
FlashTxy ==
    /\ pc = "phase_equilibrium"
    /\ diagram_type = "txy"
    /\ equilibrium' = txy_equilibrium(pressure, temperature_point, x_composition_txy)
    /\ pc' = "equilibrium"
    /\ UNCHANGED <<design_state, roundtrip, flash_inputs, pressure, previous_equilibrium>>

\* input.pressure() changes and invalidates calculate_phase_equilibrium;
\* previous_equilibrium remembers the result of the run before
ChangePressure ==
    /\ pc = "equilibrium"
    /\ diagram_type = "txy"
    /\ \E p \in pressure_values \ {pressure} : pressure' = p
    /\ previous_equilibrium' = equilibrium
    /\ equilibrium' = NoEquilibrium
    /\ pc' = "phase_equilibrium"
    /\ UNCHANGED <<design_state, roundtrip, flash_inputs>>

NextFlash == FlashPxy \/ FlashTxy \/ ChangePressure

SpecFlash == InitFlash /\ [][NextFlash]_vars

(***************************************************************************)
(* Properties.                                                             *)
(***************************************************************************)
\* 1e-9
Tolerance == Lit(1, 1000000000)

Within(a, b, tol) == FLe(FAbs(FSub(a, b)), tol)

StagesEmitted == Len(stages_data)

\* the stepper stopped with the liquid still above 1.01 * x_b
AboveBottoms == FGt(x_current, FMul(x_bottoms, BottomsTolerance))

\* C1: the stage counter, the number of emitted stage records and
\* stages_rect + stages_strip never exceed the cap of 50 in any state of either
\* loop, and the returned total_stages is stages_rect + stages_strip, at most 50.
C1_StagesWithinCap ==
    /\ stage_num <= MaxStages
    /\ StagesEmitted <= MaxStages
    /\ stages_rect + stages_strip <= MaxStages
    /\ pc = "done" => total_stages = stages_rect + stages_strip /\ total_stages <= MaxStages

\* a design whose stepping is cut off by the cap
C1_CapReached == pc = "done" /\ total_stages = MaxStages /\ StagesEmitted = MaxStages

\* C2: once started the stage stepper always returns, and when it has returned
\* either x_current <= 1.01 * x_b or exactly 50 stages have been emitted.
C2_StepperTerminates ==
    /\ (pc = "rectifying") ~> (pc = "done")
    /\ [](pc \in {"return", "done"} =>
            FLe(x_current, FMul(x_bottoms, BottomsTolerance)) \/ StagesEmitted = MaxStages)

\* a run ended by the cap alone
C2_EndedByCap == pc = "done" /\ StagesEmitted = MaxStages /\ AboveBottoms

\* C3: in the emitted stage sequence no Rectifying stage follows a Stripping
\* stage: the tags are a Rectifying prefix followed by a Stripping suffix.
C3_RectifyingThenStripping ==
    \A i \in 1..(StagesEmitted - 1) :
        stages_data[i].Section = "Stripping" => stages_data[i + 1].Section = "Stripping"

\* a finished design with stages of both sections
C3_BothSections ==
    /\ pc = "done"
    /\ StagesEmitted >= 3
    /\ stages_data[1].Section = "Rectifying"
    /\ stages_data[StagesEmitted - 1].Section = "Stripping"
    /\ stages_data[StagesEmitted].Section = "Stripping"

IsFirstStripping(i) ==
    /\ stages_data[i].Section = "Stripping"
    /\ \A j \in 1..(i - 1) : stages_data[j].Section = "Rectifying"

\* C4: whenever the emitted stage sequence contains a Stripping stage, the returned
\* feed stage is the index of the first Stripping stage.
C4_FeedStageIsFirstStripping ==
    pc = "done" => \A i \in 1..StagesEmitted : IsFirstStripping(i) => feed_stage = i

StageLine(section, x) ==
    IF section = "Rectifying" THEN OperatingLine(slope_rect, intercept_rect, x)
    ELSE OperatingLine(slope_strip, intercept_strip, x)

\* the point the stepper stood at before it emitted stage i
PointBefore(i) ==
    IF i = 1 THEN <<x_distillate, x_distillate>>
    ELSE <<stages_data[i - 1].x_liquid, stages_data[i - 1].y_next>>

\* C5, as the code has it: every emitted record has its index, x_liquid =
\* x_from_y_equilibrium(y_vapor), y_next = the operating line of its section at
\* x_liquid, and <<x_next, y_vapor>> = the point before the step (x_d, x_d for the
\* first stage, the previous record's <<x_liquid, y_next>> after); after the emit
\* the current point is <<x_liquid, y_next>>.
C5_StageRecord ==
    /\ \A i \in 1..StagesEmitted :
           /\ stages_data[i].Stage = i
           /\ <<stages_data[i].x_next, stages_data[i].y_vapor>> = PointBefore(i)
    /\ StagesEmitted > 0 =>
           /\ stages_data[StagesEmitted].x_liquid =
                  x_from_y_equilibrium(stages_data[StagesEmitted].y_vapor)
           /\ stages_data[StagesEmitted].y_next =
                  StageLine(stages_data[StagesEmitted].Section,
                            stages_data[StagesEmitted].x_liquid)
           /\ x_current = stages_data[StagesEmitted].x_liquid
           /\ y_current = stages_data[StagesEmitted].y_next

\* a finished design whose last record has x_next different from x_liquid
C5_NextIsPrevious ==
    /\ pc = "done"
    /\ StagesEmitted >= 2
    /\ stages_data[StagesEmitted].x_next = stages_data[StagesEmitted - 1].x_liquid
    /\ stages_data[StagesEmitted].x_next # stages_data[StagesEmitted].x_liquid

\* C5 as stated: x_next equals x_liquid in every record.
C5_NextIsLiquid ==
    \A i \in 1..StagesEmitted : stages_data[i].x_next = stages_data[i].x_liquid

\* C6: a run cut off by the cap with x_current still above 1.01 * x_b is reported:
\* its outcome is not that of an ordinary result.
C6_CapIsReported ==
    (pc = "done" /\ StagesEmitted = MaxStages /\ AboveBottoms) => outcome # "returned"

\* x_b < x_f < x_d
Ordered == FLt(x_bottoms, x_feed) /\ FLt(x_feed, x_distillate)

\* C7: the material balance fails with InvalidComposition, with no D, B and no
\* design result, whenever x_d = x_b or x_b < x_f < x_d is violated; D and B are
\* never negative and D is never above F.
C7_InvalidCompositionFails ==
    /\ (pc # "material_balance" /\ (x_distillate = x_bottoms \/ ~Ordered)) =>
           (pc = "failed" /\ outcome = "InvalidComposition" /\ D = None /\ B = None)
    /\ D # None => FGe(D, FZero) /\ FGe(B, FZero) /\ FLe(D, feed_rate)

\* F > 0 and 0 < x_b < x_f < x_d < 1
ValidDesign ==
    /\ FGt(feed_rate, FZero)
    /\ FGt(x_bottoms, FZero)
    /\ Ordered
    /\ FLt(x_distillate, FOne)

\* F = 100, x_f = 0.5, x_b = 0.05, x_d = 0.95
Scenario1 ==
    /\ feed_rate = FromInt(100)
    /\ x_feed = Lit(50, 100)
    /\ x_bottoms = Lit(5, 100)
    /\ x_distillate = Lit(95, 100)

BalanceComputed == pc = "minimum_reflux"

ProductsInRange ==
    /\ FGt(D, FZero) /\ FLt(D, feed_rate)
    /\ FGt(B, FZero) /\ FLt(B, feed_rate)

\* C8, to the precision of the floats: for a valid design D + B = F and
\* F * x_f = D * x_d + B * x_b, each within 1e-9 * F, 0 < D < F and 0 < B < F; for
\* F = 100, x_f = 0.5, x_b = 0.05, x_d = 0.95, D and B are within 1e-9 of 50.
C8_MassBalance ==
    (BalanceComputed /\ ValidDesign) =>
        /\ Within(FAdd(D, B), feed_rate, FMul(Tolerance, feed_rate))
        /\ Within(FMul(feed_rate, x_feed),
                  FAdd(FMul(D, x_distillate), FMul(B, x_bottoms)),
                  FMul(Tolerance, feed_rate))
        /\ ProductsInRange
        /\ Scenario1 => Within(D, FromInt(50), Tolerance) /\ Within(B, FromInt(50), Tolerance)

\* the balance of scenario 1, whose D is not the float 50.0
C8_ScenarioBalanced == BalanceComputed /\ Scenario1 /\ D # FromInt(50)

\* C8 as stated: the two balances hold exactly and scenario 1 gives D = 50, B = 50.
C8_ExactBalance ==
    (BalanceComputed /\ ValidDesign) =>
        /\ FAdd(D, B) = feed_rate
        /\ FMul(feed_rate, x_feed) = FAdd(FMul(D, x_distillate), FMul(B, x_bottoms))
        /\ ProductsInRange
        /\ Scenario1 => D = FromInt(50) /\ B = FromInt(50)

\* C9, to the precision of the floats: x_from_y_equilibrium(equilibrium_curve(x))
\* and equilibrium_curve(x_from_y_equilibrium(y)) are within 1e-9 of x and of y
\* on the grid, equilibrium_curve(0.5) = 1.2 / 1.7, and
\* x_from_y_equilibrium(1.2 / 1.7) is within 1e-9 of 0.5.
C9_InversesWithinTolerance ==
    /\ pc = "round_trip" => Within(back, given, Tolerance)
    /\ (pc = "round_trip" /\ map_first = "equilibrium_curve" /\ given = Lit(50, 100)) =>
           image = FDiv(Lit(12, 10), Lit(17, 10))

\* the round trip from 0.5, which does not come back to the float 0.5
C9_RoundTripOfHalf ==
    /\ pc = "round_trip"
    /\ map_first = "equilibrium_curve"
    /\ given = Lit(50, 100)
    /\ back # given

\* C9 as stated: the two functions are exact inverses.
C9_ExactInverses == pc = "round_trip" => back = given

\* C10: of two design computations that differ only in the reflux ratio factor,
\* the one with the larger factor never has more total stages.
C10_MoreRefluxNeverMoreStages ==
    (pc = "done" /\ previous.total # NoStage) =>
        /\ FLt(previous.rf, reflux_ratio_factor) => total_stages <= previous.total
        /\ FLt(reflux_ratio_factor, previous.rf) => previous.total <= total_stages

Flashed == pc = "equilibrium"

\* x_liquid = y_vapor = z and vapor_fraction = vf
SinglePhase(vf) ==
    /\ equilibrium.x_liquid = equilibrium.z
    /\ equilibrium.y_vapor = equilibrium.z
    /\ equilibrium.vapor_fraction = vf

\* C11: a liquid result has x_liquid = y_vapor = z and vapor fraction 0, a vapor
\* result x_liquid = y_vapor = z and vapor fraction 1; a pressure above the bubble
\* pressure or a temperature below the bubble temperature is classified liquid,
\* a pressure below the dew pressure or a temperature above the dew temperature
\* is classified vapor.
C11_PhaseBeyondBoundary ==
    Flashed =>
        /\ equilibrium.phase = "liquid" => SinglePhase(FZero)
        /\ equilibrium.phase = "vapor" => SinglePhase(FOne)
        /\ diagram_type = "pxy" =>
               /\ FGt(equilibrium.P_point, equilibrium.P_bubble) =>
                      equilibrium.phase = "liquid"
               /\ FLt(equilibrium.P_point, equilibrium.P_dew) =>
                      equilibrium.phase = "vapor"
        /\ diagram_type = "txy" =>
               /\ FLt(FromInt(equilibrium.T_point), equilibrium.T_bubble) =>
                      equilibrium.phase = "liquid"
               /\ FGt(FromInt(equilibrium.T_point), equilibrium.T_dew) =>
                      equilibrium.phase = "vapor"

\* C12: a two-phase result has 0 <= vapor_fraction <= 1.
C12_VaporFractionInRange ==
    (Flashed /\ equilibrium.phase = "two-phase") =>
        FGe(equilibrium.vapor_fraction, FZero) /\ FLe(equilibrium.vapor_fraction, FOne)

\* the fixed value lies strictly between the dew and the bubble boundary at z
StrictlyBetween ==
    IF diagram_type = "pxy"
    THEN /\ FLt(equilibrium.P_dew, equilibrium.P_point)
         /\ FLt(equilibrium.P_point, equilibrium.P_bubble)
    ELSE /\ FLt(equilibrium.T_bubble, FromInt(equilibrium.T_point))
         /\ FLt(FromInt(equilibrium.T_point), equilibrium.T_dew)

\* C13: a fixed value strictly between the dew and the bubble boundary gives a
\* two-phase result with x_liquid < z < y_vapor.
C13_TwoPhaseBrackets ==
    (Flashed /\ StrictlyBetween) =>
        /\ equilibrium.phase = "two-phase"
        /\ FLt(equilibrium.x_liquid, equilibrium.z)
        /\ FLt(equilibrium.z, equilibrium.y_vapor)

\* the number of emitted records with the given section tag
CountOf(tag) == Cardinality({i \in 1..StagesEmitted : stages_data[i].Section = tag})

\* C14: in every state stages_rect and stages_strip are the numbers of records
\* tagged Rectifying and Stripping, their sum is the stage counter and the length
\* of the stage list, the records are numbered 1, 2, ..., n, and neither counter
\* is negative.
C14_CountersAgree ==
    /\ stages_rect = CountOf("Rectifying")
    /\ stages_strip = CountOf("Stripping")
    /\ stages_rect + stages_strip = stage_num
    /\ stage_num = StagesEmitted
    /\ \A i \in 1..StagesEmitted : stages_data[i].Stage = i
    /\ stages_rect >= 0
    /\ stages_strip >= 0

\* a finished design whose first loop emitted the switching stage
C14_SwitchCountedAsStripping ==
    /\ pc = "done"
    /\ stages_rect > 0
    /\ feed_stage = stages_rect + 1
    /\ stages_data[feed_stage].Section = "Stripping"
    /\ stages_strip > 1

AfterMinimumReflux ==
    pc \in {"operating_lines", "calculate_stages", "rectifying", "feed_stage",
            "stripping", "return", "done"}

AfterOperatingLines ==
    pc \in {"calculate_stages", "rectifying", "feed_stage", "stripping", "return", "done"}

\* C15, for the designs whose material balance is defined: for q = 1 and
\* x_d # x_b the computation does not fail; the feed/equilibrium intersection is (x_f, equilibrium_curve(x_f)),
\* the feed/rectifying intersection is (x_f, slope_rect * x_f + intercept_rect),
\* and the computation that ends returns a design result.
C15_VerticalFeedLine ==
    (q_factor = FromInt(1) /\ x_distillate # x_bottoms) =>
        /\ pc # "failed"
        /\ outcome # "ZeroDivisionError"
        /\ AfterMinimumReflux =>
               /\ x_intersect = x_feed
               /\ y_intersect = equilibrium_curve(x_feed)
        /\ AfterOperatingLines =>
               /\ x_feed_intersect = x_feed
               /\ y_feed_intersect = OperatingLine(slope_rect, intercept_rect, x_feed)
        /\ pc = "done" => outcome = "returned" /\ total_stages # NoStage

\* a design with q = 1 that has returned its result
C15_VerticalFeedLineReturned ==
    /\ q_factor = FromInt(1)
    /\ pc = "done"
    /\ outcome = "returned"
    /\ x_intersect = x_feed
    /\ total_stages > 0

\* C15 as stated: for q = 1 the computation never fails, whatever the other
\* inputs.
C15_VerticalFeedLineNeverFails ==
    q_factor = FromInt(1) =>
        /\ pc # "failed"
        /\ outcome # "ZeroDivisionError"
        /\ AfterMinimumReflux => x_intersect = x_feed
        /\ AfterOperatingLines => x_feed_intersect = x_feed
        /\ pc = "done" => outcome = "returned"

\* C16: of two T-x-y results that differ only in the pressure input, the phase,
\* x_liquid, y_vapor, vapor_fraction and the bubble and dew temperatures are
\* the same.
C16_PressureIndependent ==
    (Flashed /\ diagram_type = "txy" /\ previous_equilibrium # NoEquilibrium) =>
        /\ previous_equilibrium.P # equilibrium.P
        /\ previous_equilibrium.T_point = equilibrium.T_point
        /\ previous_equilibrium.z = equilibrium.z
        /\ previous_equilibrium.phase = equilibrium.phase
        /\ previous_equilibrium.x_liquid = equilibrium.x_liquid
        /\ previous_equilibrium.y_vapor = equilibrium.y_vapor
        /\ previous_equilibrium.vapor_fraction = equilibrium.vapor_fraction
        /\ previous_equilibrium.T_bubble = equilibrium.T_bubble
        /\ previous_equilibrium.T_dew = equilibrium.T_dew

\* two two-phase T-x-y results at different pressures
C16_TwoPressures ==
    /\ Flashed
    /\ diagram_type = "txy"
    /\ previous_equilibrium.phase = "two-phase"
    /\ equilibrium.phase = "two-phase"
    /\ previous_equilibrium.P # equilibrium.P

====
